---- MODULE Spec2Model ----
(***************************************************************************)
(* Model of the two AstriaGraph data scripts:                              *)
(*   scripts/convert_intact_to_tsv.mjs  (descriptor table + reconciliation *)
(*                                       of intactRso rows per NoradId)    *)
(*   scripts/fetch_celestrak.mjs        (CelesTrak GP JSON -> TSV rows)    *)
(*                                                                         *)
(* Representation.  A JavaScript string is a sequence of lexemes; the      *)
(* lexeme " " is one whitespace character, every other lexeme is a run of  *)
(* non-whitespace characters.  A TSV line is the sequence of its cells     *)
(* (the text between tabs), a TSV text the sequence of its lines.  A       *)
(* JavaScript number is a record [k, v]: k = "fin" with the value v,       *)
(* k = "inf" with the sign v, or k = "nan".  Date.parse results are kept   *)
(* in days (milliseconds / 86400000).  Angles in radians are kept in       *)
(* micro-radians.                                                          *)
(***************************************************************************)
EXTENDS Integers, Sequences, FiniteSets, TLC

VARIABLES
    pc,           \* position of convert_intact_to_tsv.mjs main()
    js,           \* content of scripts/intactData.js (the input)
    ds,           \* parseTSV(dataSourcesTsv)
    rso,          \* parseTSV(intactRsoTsv)
    idToName,     \* Map DataSourceId -> Name
    bestByNorad,  \* Map trimmed NoradId -> champion row
    i,            \* index of the next element of rso.rows
    files,        \* files written under assets/data by the converter
    exitCode,     \* process exit code of the converter (-1: still running)
    fpc,          \* position of fetch_celestrak.mjs main()
    net,          \* what fetch() answers for each CelesTrak group (the input)
    active,       \* parsed JSON of the active group
    debrisAll,    \* accumulated debris objects
    g,            \* index of the next debris group
    warnings,     \* console.warn lines of the fetcher
    ffiles,       \* files written under assets/data by the fetcher
    fexitCode     \* process exit code of the fetcher (-1: still running)

cvars == <<pc, js, ds, rso, idToName, bestByNorad, i, files, exitCode>>
fvars == <<fpc, net, active, debrisAll, g, warnings, ffiles, fexitCode>>
vars == <<pc, js, ds, rso, idToName, bestByNorad, i, files, exitCode,
          fpc, net, active, debrisAll, g, warnings, ffiles, fexitCode>>

(***************************************************************************)
(* Strings                                                                 *)
(***************************************************************************)
S(x) == <<x>>
Range(s) == {s[n] : n \in 1..Len(s)}

RECURSIVE TrimStart(_)
TrimStart(s) ==
    IF s = <<>> THEN s
    ELSE IF Head(s) = " " THEN TrimStart(Tail(s)) ELSE s

RECURSIVE TrimEnd(_)
TrimEnd(s) ==
    IF s = <<>> THEN s
    ELSE IF s[Len(s)] = " " THEN TrimEnd(SubSeq(s, 1, Len(s) - 1)) ELSE s

\* String.prototype.trim
Trim(s) == TrimEnd(TrimStart(s))

\* Array.prototype.indexOf (0-based, -1 when absent)
IndexOf(arr, x) ==
    IF \E n \in 1..Len(arr) : arr[n] = x
    THEN (CHOOSE n \in 1..Len(arr) : arr[n] = x /\ \A m \in 1..(n - 1) : arr[m] # x) - 1
    ELSE -1

(***************************************************************************)
(* Numbers                                                                 *)
(***************************************************************************)
Fin(n) == [k |-> "fin", v |-> n]
NaN == [k |-> "nan", v |-> 0]
PosInf == [k |-> "inf", v |-> 1]
NegInf == [k |-> "inf", v |-> -1]

\* Number.isFinite
IsFinite(n) == n.k = "fin"

\* the > operator on numbers
JsGt(a, b) ==
    IF a.k = "nan" \/ b.k = "nan" THEN FALSE
    ELSE IF a.k = "inf" THEN a.v = 1 /\ ~(b.k = "inf" /\ b.v = 1)
    ELSE IF b.k = "inf" THEN b.v = -1
    ELSE a.v > b.v

\* the decimal numerals that occur in the modelled inputs
Numerals ==
    {S("7000000"), S("6800000"), S("0"), S("1"), S("-1"), S("45"), S("90"), S("180")}

NumeralValue(t) ==
    CASE t = S("7000000") -> 7000000
      [] t = S("6800000") -> 6800000
      [] t = S("0") -> 0
      [] t = S("1") -> 1
      [] t = S("-1") -> -1
      [] t = S("45") -> 45
      [] t = S("90") -> 90
      [] t = S("180") -> 180

\* Number(string): StringToNumber. Surrounding whitespace is ignored, the
\* empty (or all-whitespace) string is 0, "Infinity" and an overflowing
\* literal are Infinity, anything that is no numeric literal is NaN.
StringToNumber(s) ==
    LET t == Trim(s) IN
    IF t = <<>> THEN Fin(0)
    ELSE IF t \in Numerals THEN Fin(NumeralValue(t))
    ELSE IF t \in {S("Infinity"), S("1e999")} THEN PosInf
    ELSE IF t = S("-Infinity") THEN NegInf
    ELSE NaN

\* Date.parse(string), in days since 1970-01-01T00:00:00Z
DateParse(s) ==
    CASE s = S("2024-01-01") -> Fin(19723)
      [] s = S("2024-01-01T00:00:00Z") -> Fin(19723)
      [] s = S("2024-06-01") -> Fin(19875)
      [] OTHER -> NaN

(***************************************************************************)
(* Map (insertion ordered): a sequence of [key, val] entries               *)
(***************************************************************************)
MapHas(m, key) == \E n \in 1..Len(m) : m[n].key = key
MapGet(m, key) == (CHOOSE e \in Range(m) : e.key = key).val
MapSet(m, key, val) ==
    IF MapHas(m, key)
    THEN [n \in 1..Len(m) |-> IF m[n].key = key THEN [key |-> key, val |-> val] ELSE m[n]]
    ELSE Append(m, [key |-> key, val |-> val])
MapKeys(m) == {e.key : e \in Range(m)}
MapValues(m) == [n \in 1..Len(m) |-> m[n].val]

(***************************************************************************)
(* convert_intact_to_tsv.mjs: text helpers                                 *)
(***************************************************************************)
EmptyLine == << <<>> >>

\* String.prototype.trim on a whole TSV text: tabs and newlines are
\* whitespace too, so trailing empty cells and empty lines go as well.
RECURSIVE TrimTextEnd(_)
TrimTextEnd(t) ==
    IF t = <<>> THEN t
    ELSE
        LET last == t[Len(t)]
            n == Len(last)
            cell == TrimEnd(last[n])
        IN  IF cell # <<>> THEN [t EXCEPT ![Len(t)] = [last EXCEPT ![n] = cell]]
            ELSE IF n > 1 THEN TrimTextEnd([t EXCEPT ![Len(t)] = SubSeq(last, 1, n - 1)])
            ELSE TrimTextEnd(SubSeq(t, 1, Len(t) - 1))

RECURSIVE TrimTextStart(_)
TrimTextStart(t) ==
    IF t = <<>> THEN t
    ELSE
        LET first == t[1]
            cell == TrimStart(first[1])
        IN  IF cell # <<>> THEN [t EXCEPT ![1] = [first EXCEPT ![1] = cell]]
            ELSE IF Len(first) > 1 THEN TrimTextStart([t EXCEPT ![1] = Tail(first)])
            ELSE TrimTextStart(Tail(t))

TrimText(t) == TrimTextEnd(TrimTextStart(t))

\* extractBacktick(name, text).  The file is modelled by what the two
\* indexOf calls find for each variable: "nomarker" (no `var <name> = ` + backtick),
\* "noend" (no backtick after the marker) or "ok" with the enclosed text.
extractBacktick(name, text) ==
    LET sect == text[name] IN
    IF sect.found = "nomarker" THEN [ok |-> FALSE, val |-> <<>>]
    ELSE IF sect.found = "noend" THEN [ok |-> FALSE, val |-> <<>>]
    ELSE [ok |-> TRUE, val |-> TrimText(sect.body)]

\* the record parseTSV builds for one data line: rec[header[j]] = cols[j],
\* a repeated header name keeps the last column of that name
RecOf(header, cols) ==
    [h \in Range(header) |->
        cols[CHOOSE j \in 1..Len(header) :
                header[j] = h /\ \A m \in (j + 1)..Len(header) : header[m] # h]]

RECURSIVE ParseRows(_, _, _)
ParseRows(lines, header, n) ==
    IF n > Len(lines) THEN <<>>
    ELSE IF Len(lines[n]) < Len(header) THEN ParseRows(lines, header, n + 1)
    ELSE <<[line |-> n, rec |-> RecOf(header, lines[n])]>> \o ParseRows(lines, header, n + 1)

\* parseTSV(tsv): ok = FALSE when lines[0] is undefined and .split throws
parseTSV(tsv) ==
    LET lines == SelectSeq(tsv, LAMBDA l : l # EmptyLine) IN
    IF lines = <<>> THEN [ok |-> FALSE, header |-> <<>>, rows |-> <<>>]
    ELSE [ok |-> TRUE, header |-> lines[1], rows |-> ParseRows(lines, lines[1], 2)]

\* mapOrbitType(ch)
mapOrbitType(ch) ==
    LET c == Trim(ch) IN
    CASE c \in {S("L"), S("l")} -> S("LEO")
      [] c \in {S("M"), S("m")} -> S("MEO")
      [] c \in {S("G"), S("g")} -> S("GEO")
      [] c \in {S("H"), S("h")} -> S("HEO")
      [] OTHER -> <<>>

\* row[f] ?? ''
Field(row, f) == IF S(f) \in DOMAIN row.rec THEN row.rec[S(f)] ELSE <<>>
\* String(row[f])
StringOf(row, f) == IF S(f) \in DOMAIN row.rec THEN row.rec[S(f)] ELSE S("undefined")
\* Number(row[f])
NumberOf(row, f) == IF S(f) \in DOMAIN row.rec THEN StringToNumber(row.rec[S(f)]) ELSE NaN

\* prev when bestByNorad.get(norad) is undefined
Undefined == [line |-> 0, rec |-> <<>>]

(***************************************************************************)
(* convert_intact_to_tsv.mjs: validity and the selection policy            *)
(***************************************************************************)
priority == <<S("0"), S("4"), S("3"), S("1"), S("7")>>

hasValidElems(row) ==
    LET sma == NumberOf(row, "SMA")
        inc == NumberOf(row, "Inc")
        ecc == NumberOf(row, "Ecc")
        raan == NumberOf(row, "RAAN")
        argp == NumberOf(row, "ArgP")
        manom == NumberOf(row, "MeanAnom")
    IN  /\ IsFinite(sma)
        /\ JsGt(sma, Fin(0))
        /\ \A x \in {inc, ecc, raan, argp, manom} : IsFinite(x)
        /\ Len(Trim(Field(row, "Epoch"))) > 0

\* epochToDate without the -Infinity fallback for an unparsable epoch
epochToDate_NoFallback(row) == DateParse(Trim(Field(row, "Epoch")))

epochToDate(row) ==
    LET e == Trim(Field(row, "Epoch"))
        d == DateParse(e)
    IN  IF IsFinite(d) THEN d ELSE NegInf

Unlisted == 999

\* the key without .trim()
noradOf_NoTrim(row) == Field(row, "NoradId")

\* line 119: String(row['NoradId'] ?? '').trim()
noradOf(row) == Trim(Field(row, "NoradId"))

\* better with the raw indexOf results compared (-1 for an unlisted source)
better_RawIndex(a, b) ==
    IF b = Undefined THEN TRUE
    ELSE
        LET pa == IndexOf(priority, Trim(StringOf(a, "DataSourceId")))
            pb == IndexOf(priority, Trim(StringOf(b, "DataSourceId")))
        IN  IF pa # pb THEN pa < pb
            ELSE JsGt(epochToDate(a), epochToDate(b))

\* better with >= in place of > on the epochs
better_OrEqual(a, b) ==
    IF b = Undefined THEN TRUE
    ELSE
        LET pa == IndexOf(priority, Trim(StringOf(a, "DataSourceId")))
            pb == IndexOf(priority, Trim(StringOf(b, "DataSourceId")))
        IN  IF pa # pb
            THEN (IF pa # -1 THEN pa ELSE Unlisted) < (IF pb # -1 THEN pb ELSE Unlisted)
            ELSE ~JsGt(epochToDate(b), epochToDate(a))

\* better by epoch alone, the source priority ignored
better_EpochOnly(a, b) ==
    IF b = Undefined THEN TRUE
    ELSE JsGt(epochToDate(a), epochToDate(b))

better(a, b) ==
    IF b = Undefined THEN TRUE
    ELSE
        LET pa == IndexOf(priority, Trim(StringOf(a, "DataSourceId")))
            pb == IndexOf(priority, Trim(StringOf(b, "DataSourceId")))
        IN  IF pa # pb
            THEN (IF pa # -1 THEN pa ELSE Unlisted) < (IF pb # -1 THEN pb ELSE Unlisted)
            ELSE JsGt(epochToDate(a), epochToDate(b))


(***************************************************************************)
(* convert_intact_to_tsv.mjs: main()                                       *)
(***************************************************************************)
DsFile == "www_data_sources.tsv"
NodebFile == "www_query_NODEB.tsv"

\* name.toUpperCase().includes('USSPACE')
UpperIncludesUSSPACE(name) ==
    \E n \in 1..Len(name) : name[n] \in {"USSPACECOM", "usspacecom", "USSPACEFORCE"}

\* lines 76-82: the loop over ds.rows, from row n on
RECURSIVE BuildIdToName(_, _, _)
BuildIdToName(rows, n, m) ==
    IF n > Len(rows) THEN m
    ELSE
        LET id == Trim(Field(rows[n], "DataSourceId"))
            name0 == Trim(Field(rows[n], "Name"))
            name == IF id = S("0") /\ UpperIncludesUSSPACE(name0) THEN S("USSTRATCOM") ELSE name0
        IN  BuildIdToName(rows, n + 1, IF id # <<>> THEN MapSet(m, id, name) ELSE m)

\* line 87: dsOut, as the lines of the file
DsOut(m) == <<<<S("Code"), S("Name")>>>> \o [n \in 1..Len(m) |-> <<m[n].key, m[n].val>>]

headerOut ==
    <<S("DataSource"), S("Name"), S("Country"), S("CatalogId"), S("NoradId"),
      S("BirthDate"), S("Operator"), S("Users"), S("Purpose"), S("DetailedPurpose"),
      S("LaunchMass"), S("DryMass"), S("Power"), S("Lifetime"), S("Contractor"),
      S("LaunchSite"), S("LaunchVehicle"), S("OrbitType"), S("Epoch"),
      S("SMA"), S("Ecc"), S("Inc"), S("RAAN"), S("ArgP"), S("MeanAnom")>>

\* lines 134-187: the cells of the output row of one champion
OutCols(row) ==
    <<Trim(Field(row, "DataSourceId")), Field(row, "Name"), Field(row, "Country"),
      Field(row, "CatalogId"), Field(row, "NoradId"), Field(row, "BirthDate"),
      Field(row, "Operator"), Field(row, "Users"), Field(row, "Purpose"),
      Field(row, "DetailedPurpose"), Field(row, "LaunchMass"), Field(row, "DryMass"),
      Field(row, "Power"), Field(row, "Lifetime"), Field(row, "Contractor"),
      Field(row, "LaunchSite"), Field(row, "LaunchVehicle"),
      mapOrbitType(Field(row, "OrbitType")), Field(row, "Epoch"),
      Field(row, "SMA"), Field(row, "Ecc"), Field(row, "Inc"), Field(row, "RAAN"),
      Field(row, "ArgP"), Field(row, "MeanAnom")>>

\* lines 132-190: nodebOut, as the lines of the file
NodebOut(m) == <<headerOut>> \o [n \in 1..Len(m) |-> OutCols(m[n].val)]

\* lines 68-73: read the file, extract both texts, parse both tables.  Any
\* throw rejects main()'s promise before anything is written.
Load ==
    /\ pc = "start"
    /\ LET e1 == extractBacktick("dataSources", js)
           e2 == extractBacktick("intactRso", js)
           p1 == parseTSV(e1.val)
           p2 == parseTSV(e2.val)
       IN  IF e1.ok /\ e2.ok /\ p1.ok /\ p2.ok
           THEN /\ ds' = p1
                /\ rso' = p2
                /\ pc' = "descriptors"
           ELSE /\ pc' = "rejected"
                /\ UNCHANGED <<ds, rso>>
    /\ UNCHANGED <<js, idToName, bestByNorad, i, files, exitCode>>
    /\ UNCHANGED fvars

\* lines 76-88: build idToName and write www_data_sources.tsv
WriteDescriptors ==
    /\ pc = "descriptors"
    /\ idToName' = BuildIdToName(ds.rows, 1, <<>>)
    /\ files' = MapSet(files, DsFile, DsOut(idToName'))
    /\ i' = 1
    /\ pc' = "reconcile"
    /\ UNCHANGED <<js, ds, rso, bestByNorad, exitCode>>
    /\ UNCHANGED fvars

\* lines 117-123: one iteration of the loop over rso.rows
ReconcileRow ==
    /\ pc = "reconcile"
    /\ i <= Len(rso.rows)
    /\ LET row == rso.rows[i]
           norad == noradOf(row)
           prev == IF MapHas(bestByNorad, norad) THEN MapGet(bestByNorad, norad) ELSE Undefined
       IN  IF hasValidElems(row) /\ norad # <<>> /\ better(row, prev)
           THEN bestByNorad' = MapSet(bestByNorad, norad, row)
           ELSE UNCHANGED bestByNorad
    /\ i' = i + 1
    /\ UNCHANGED <<pc, js, ds, rso, idToName, files, exitCode>>
    /\ UNCHANGED fvars

\* lines 126-195: build the object rows, write www_query_NODEB.tsv, finish
Emit ==
    /\ pc = "reconcile"
    /\ i > Len(rso.rows)
    /\ files' = MapSet(files, NodebFile, NodebOut(bestByNorad))
    /\ pc' = "done"
    /\ exitCode' = 0
    /\ UNCHANGED <<js, ds, rso, idToName, bestByNorad, i>>
    /\ UNCHANGED fvars

\* line 198: main().catch(err => { console.error(...); process.exit(1) })
Catch ==
    /\ pc = "rejected"
    /\ pc' = "exited"
    /\ exitCode' = 1
    /\ UNCHANGED <<js, ds, rso, idToName, bestByNorad, i, files>>
    /\ UNCHANGED fvars


(***************************************************************************)
(* fetch_celestrak.mjs                                                     *)
(* A JSON value is [t, n, s]: t = "num" with the number n, t = "str" with  *)
(* the string s, t = "null", or t = "undef" for an absent property.        *)
(***************************************************************************)
Num(n) == [t |-> "num", n |-> n, s |-> <<>>]
Str(s) == [t |-> "str", n |-> NaN, s |-> s]
Null == [t |-> "null", n |-> NaN, s |-> <<>>]
Undef == [t |-> "undef", n |-> NaN, s |-> <<>>]

\* Number(x)
ToNumber(x) ==
    CASE x.t = "num" -> x.n
      [] x.t = "str" -> StringToNumber(x.s)
      [] x.t = "null" -> Fin(0)
      [] x.t = "undef" -> NaN

\* x || '' for a JSON value x, as a string
OrEmpty(x) ==
    CASE x.t = "str" -> x.s
      [] x.t = "num" ->
            IF x.n.k = "nan" \/ (x.n.k = "fin" /\ x.n.v = 0) THEN <<>>
            ELSE IF x.n.k = "fin" THEN S(ToString(x.n.v))
            ELSE IF x.n.v = 1 THEN S("Infinity") ELSE S("-Infinity")
      [] OTHER -> <<>>

\* toISO(x) = (x || '').toString()
toISO(x) == OrEmpty(x)

\* Math.PI in micro-radians
PiMicro == 3141593

\* deg2rad(d) = (Number(d) || 0) * Math.PI / 180, the result in micro-radians
deg2rad(d) ==
    LET x == ToNumber(d)
        y == IF x.k = "nan" \/ (x.k = "fin" /\ x.v = 0) THEN Fin(0) ELSE x
    IN  IF y.k = "fin" THEN Fin((y.v * PiMicro) \div 180) ELSE y

\* toNum(x): the number, or '' when it is not finite
toNum(x) == LET n == ToNumber(x) IN IF IsFinite(n) THEN Num(n) ELSE Str(<<>>)

\* smaFromMeanMotionRevPerDay(n): cbrt(MU_EARTH / (n*2*PI/86400)^2) in metres,
\* tabulated for the mean motions of the modelled inputs
smaFromMeanMotionRevPerDay(nRevPerDay) ==
    LET n == ToNumber(nRevPerDay) IN
    IF ~IsFinite(n) \/ n.v <= 0 THEN Str(<<>>)
    ELSE CASE n.v = 1 -> Num(Fin(42241096))
           [] n.v = 15 -> Num(Fin(6945033))
           [] OTHER -> Num(Fin(6652556))

\* line 75: the text of one column after cols.map(...).join('\t')
CellText(v) ==
    CASE v.t = "str" -> v.s
      [] v.t = "num" ->
            IF v.n.k = "fin" THEN S(ToString(v.n.v))
            ELSE IF v.n.k = "nan" THEN S("NaN")
            ELSE IF v.n.v = 1 THEN S("Infinity") ELSE S("-Infinity")
      [] OTHER -> <<>>

\* rowFromCelestrak(obj): the 25 cells of the row
rowFromCelestrak(obj) ==
    LET name == OrEmpty(obj.OBJECT_NAME)
        catalogId == OrEmpty(obj.OBJECT_ID)
        noradId == OrEmpty(obj.NORAD_CAT_ID)
        epoch == toISO(obj.EPOCH)
        sma == smaFromMeanMotionRevPerDay(obj.MEAN_MOTION)
        ecc == toNum(obj.ECCENTRICITY)
        inc == Num(deg2rad(obj.INCLINATION))
        raan == Num(deg2rad(obj.RA_OF_ASC_NODE))
        argp == Num(deg2rad(obj.ARG_OF_PERICENTER))
        meanAnom == Num(deg2rad(obj.MEAN_ANOMALY))
    IN  <<S("USSTRATCOM"), name, <<>>, catalogId, noradId,
          <<>>, <<>>, <<>>, <<>>, <<>>,
          <<>>, <<>>, <<>>, <<>>, <<>>,
          <<>>, <<>>,
          <<>>,
          epoch, CellText(sma), CellText(ecc), CellText(inc), CellText(raan),
          CellText(argp), CellText(meanAnom)>>

DebFile == "www_query_DEB.tsv"
debrisGroups == <<"iridium-33-debris", "cosmos-2251-debris">>

\* fetchJson(url): ok = FALSE when fetch rejects, the status is not 2xx or
\* the body is no JSON, and the call throws
fetchJson(group) == net[group]

\* lines 26-30 with 90/108: [HEADER, ...arr.map(rowFromCelestrak)]
TsvLines(arr) == <<headerOut>> \o [n \in 1..Len(arr) |-> rowFromCelestrak(arr[n])]

\* lines 85-91: fetch the active group and write www_query_NODEB.tsv; the
\* await is in no try block, so a failure rejects main()'s promise
FetchActive ==
    /\ fpc = "start"
    /\ LET r == fetchJson("active") IN
       IF r.ok
       THEN /\ active' = r.body
            /\ ffiles' = MapSet(ffiles, NodebFile, TsvLines(r.body))
            /\ g' = 1
            /\ fpc' = "debris"
       ELSE /\ fpc' = "rejected"
            /\ UNCHANGED <<active, ffiles, g>>
    /\ UNCHANGED <<net, debrisAll, warnings, fexitCode>>
    /\ UNCHANGED cvars

\* lines 99-107: one iteration of the loop over debrisGroups
FetchDebrisGroup ==
    /\ fpc = "debris"
    /\ g <= Len(debrisGroups)
    /\ LET r == fetchJson(debrisGroups[g]) IN
       IF r.ok
       THEN /\ debrisAll' = debrisAll \o r.body
            /\ UNCHANGED warnings
       ELSE /\ warnings' = Append(warnings, debrisGroups[g])
            /\ UNCHANGED debrisAll
    /\ g' = g + 1
    /\ UNCHANGED <<fpc, net, active, ffiles, fexitCode>>
    /\ UNCHANGED cvars

\* lines 108-113: write www_query_DEB.tsv and finish
WriteDebris ==
    /\ fpc = "debris"
    /\ g > Len(debrisGroups)
    /\ ffiles' = MapSet(ffiles, DebFile, TsvLines(debrisAll))
    /\ fpc' = "done"
    /\ fexitCode' = 0
    /\ UNCHANGED <<net, active, debrisAll, g, warnings>>
    /\ UNCHANGED cvars

\* lines 116-119: main().catch(err => { console.error(...); process.exit(1) })
FetchCatch ==
    /\ fpc = "rejected"
    /\ fpc' = "exited"
    /\ fexitCode' = 1
    /\ UNCHANGED <<net, active, debrisAll, g, warnings, ffiles>>
    /\ UNCHANGED cvars


(***************************************************************************)
(* Inputs                                                                  *)
(***************************************************************************)
MaxRows == 3
MaxObjs == 1

SeqsUpTo(set, n) == UNION {[1..m -> set] : m \in 0..n}

Section(text) == [found |-> "ok", body |-> text]
NoMarker == [found |-> "nomarker", body |-> <<>>]
NoEnd == [found |-> "noend", body |-> <<>>]

DsHeader == <<S("DataSourceId"), S("Name")>>
\* a descriptor table naming the sources 0 and 4 only
DsText == <<DsHeader, <<S("0"), S("USSPACECOM")>>, <<S("4"), S("SeeSat-L")>>>>
\* descriptor tables with a padded id, a row without an id, a short row,
\* a repeated id and an empty line
DsTexts ==
    { DsText,
      <<DsHeader, <<<<" ", "0", " ">>, <<"usspacecom", " ", "catalog">>>>, EmptyLine,
        <<<<>>, S("anonymous")>>, <<S("8")>>, <<S("9"), S("Amateur")>>,
        <<S("9"), S("Observers")>>>>,
      <<DsHeader>> }

RsoHeader ==
    <<S("DataSourceId"), S("Name"), S("NoradId"), S("OrbitType"), S("Epoch"),
      S("SMA"), S("Ecc"), S("Inc"), S("RAAN"), S("ArgP"), S("MeanAnom")>>
\* the same table without its NoradId column
RsoHeaderNoNorad ==
    <<S("DataSourceId"), S("Name"), S("OrbitType"), S("Epoch"),
      S("SMA"), S("Ecc"), S("Inc"), S("RAAN"), S("ArgP"), S("MeanAnom")>>

RsoLine(src, norad, epoch, sma, inc) ==
    <<src, S("ISS"), norad, S("L"), epoch, sma, S("0"), inc, S("1"), S("0"), S("45")>>

E1 == S("2024-01-01")
E1z == <<" ", "2024-01-01T00:00:00Z">>
E2 == S("2024-06-01")
EBad == S("n/a")
Sma == S("7000000")

\* valid rows of one object from listed (0, 4) and unlisted (8, 9) sources
PolicyLines ==
    { RsoLine(S("0"), S("5"), E1, Sma, S("1")),
      RsoLine(S("0"), S("5"), E2, Sma, S("1")),
      RsoLine(S("0"), S("5"), EBad, Sma, S("1")),
      RsoLine(<<" ", "0", " ">>, <<" ", "5", " ">>, E1z, Sma, S("1")),
      RsoLine(S("4"), S("5"), E2, Sma, S("1")),
      RsoLine(S("8"), S("5"), E1, Sma, S("1")),
      RsoLine(S("8"), S("5"), E2, Sma, S("1")),
      RsoLine(S("9"), S("5"), E1, Sma, S("1")),
      RsoLine(S("9"), S("5"), EBad, Sma, S("1")) }

\* rows of two objects, rows with unusable cells, a row without a key, a
\* truncated row
ValidityLines ==
    { RsoLine(S("4"), S("5"), E1, Sma, S("1")),
      RsoLine(S("8"), <<"5", " ">>, E2, S("6800000"), S("1")),
      RsoLine(S("4"), S("6"), E1, Sma, S("1")),
      RsoLine(S("0"), S(" "), E2, Sma, S("1")),
      RsoLine(S("0"), S("5"), E2, S("0"), S("1")),
      RsoLine(S("0"), S("5"), E2, Sma, S("abc")),
      RsoLine(S("0"), S("5"), E2, Sma, <<>>),
      <<S("0"), S("ISS"), S("5"), S("L"), E2, Sma>> }

RsoTexts(lines) == {<<RsoHeader>> \o body : body \in SeqsUpTo(lines, MaxRows)}

\* files whose two tables both parse
GoodFiles ==
    {[dataSources |-> Section(DsText), intactRso |-> Section(text)] :
        text \in RsoTexts(PolicyLines) \cup RsoTexts(ValidityLines)}

SampleRso ==
    <<RsoHeader, RsoLine(S("9"), S("5"), E1, Sma, S("1")),
      RsoLine(S("0"), S("6"), E2, Sma, S("1"))>>

\* a table with every other kind of unusable row
UnusableRso ==
    <<RsoHeader,
      RsoLine(S("4"), S("5"), E1, Sma, S("1")),
      RsoLine(S("0"), <<>>, E2, Sma, S("1")),
      RsoLine(S("0"), S("5"), E2, <<>>, S("1")),
      RsoLine(S("0"), S("5"), E2, S("-1"), S("1")),
      RsoLine(S("0"), S("5"), E2, S("Infinity"), S("1")),
      RsoLine(S("0"), S("5"), E2, S("abc"), S("1")),
      RsoLine(S("0"), S("5"), E2, Sma, S("NaN")),
      RsoLine(S("0"), S("5"), E2, Sma, S("1e999")),
      RsoLine(S("0"), S("5"), <<>>, Sma, S("1")),
      RsoLine(S("0"), S("5"), S(" "), Sma, S("1")),
      EmptyLine,
      <<S("0"), S("ISS"), S("5"), S("L"), E2, Sma, S("0"), S("1"), S("1"), S("0"), <<>>>>>>

\* files with other descriptor tables, a missing or unterminated variable,
\* a table without any line, a table without the NoradId column
StructFiles ==
    {[dataSources |-> Section(d), intactRso |-> Section(SampleRso)] : d \in DsTexts}
    \cup {[dataSources |-> Section(DsText), intactRso |-> Section(UnusableRso)]}
    \cup {[dataSources |-> d, intactRso |-> Section(SampleRso)] :
            d \in {NoMarker, NoEnd, Section(<<>>), Section(<<EmptyLine, <<S(" ")>>>>)}}
    \cup {[dataSources |-> Section(DsText), intactRso |-> r] :
            r \in {NoMarker, NoEnd, Section(<<>>), Section(<<EmptyLine, <<S(" "), <<>>>>>>)}}
    \cup {[dataSources |-> Section(DsText),
           intactRso |-> Section(<<RsoHeaderNoNorad,
                                   <<S("0"), S("ISS"), S("L"), E2, Sma, S("0"), S("1"),
                                     S("1"), S("0"), S("45")>>>>)]}

InputFiles == GoodFiles \cup StructFiles

(***************************************************************************)
(* Specifications                                                          *)
(***************************************************************************)
NoTable == [ok |-> FALSE, header |-> <<>>, rows |-> <<>>]

ConvertStart(pc0, input) ==
    /\ pc = pc0
    /\ js = input
    /\ ds = NoTable
    /\ rso = NoTable
    /\ idToName = <<>>
    /\ bestByNorad = <<>>
    /\ i = 1
    /\ files = <<>>
    /\ exitCode = -1

NoResponse == [ok |-> FALSE, body |-> <<>>]

FetchStart(fpc0, responses) ==
    /\ fpc = fpc0
    /\ net = responses
    /\ active = <<>>
    /\ debrisAll = <<>>
    /\ g = 1
    /\ warnings = <<>>
    /\ ffiles = <<>>
    /\ fexitCode = -1

NoNet == [n \in {"active"} \cup Range(debrisGroups) |-> NoResponse]

Init ==
    /\ \E input \in InputFiles : ConvertStart("start", input)
    /\ FetchStart("idle", NoNet)

Next ==
    \/ Load
    \/ WriteDescriptors
    \/ ReconcileRow
    \/ Emit
    \/ Catch

Spec == Init /\ [][Next]_vars


\* what JSON.parse can deliver for an angle property: absent, null, a finite
\* number, an overflowing literal (1e999 is Infinity), a string
AngleInputs ==
    { Undef, Null, Num(Fin(0)), Num(Fin(90)), Num(Fin(180)), Num(PosInf), Num(NegInf),
      Str(S("abc")), Str(S("45")), Str(<<>>), Str(S("Infinity")) }

Obj(id, inc, raan, argp, manom) ==
    [ OBJECT_NAME |-> Str(S("ISS")), OBJECT_ID |-> Str(S("1998-067A")),
      NORAD_CAT_ID |-> Num(Fin(id)), EPOCH |-> Str(S("2024-06-01")),
      MEAN_MOTION |-> Num(Fin(15)), ECCENTRICITY |-> Num(Fin(0)),
      INCLINATION |-> inc, RA_OF_ASC_NODE |-> raan,
      ARG_OF_PERICENTER |-> argp, MEAN_ANOMALY |-> manom ]

Deg90 == Num(Fin(90))

Objs ==
    {Obj(25544, a, Deg90, Deg90, Deg90) : a \in AngleInputs}
    \cup {Obj(25544, Deg90, a, Deg90, Deg90) : a \in AngleInputs}
    \cup {Obj(25544, Deg90, Deg90, a, Deg90) : a \in AngleInputs}
    \cup {Obj(25544, Deg90, Deg90, Deg90, a) : a \in AngleInputs}
    \cup {[Obj(25544, Deg90, Deg90, Deg90, Deg90) EXCEPT !.MEAN_MOTION = Undef,
                                                       !.ECCENTRICITY = Str(S("abc")),
                                                       !.EPOCH = Undef,
                                                       !.NORAD_CAT_ID = Num(Fin(0))]}

Response(arr) == [ok |-> TRUE, body |-> arr]

Responses ==
    { ("active" :> a) @@ ("iridium-33-debris" :> b) @@ ("cosmos-2251-debris" :> c) :
        a \in {NoResponse} \cup {Response(arr) : arr \in SeqsUpTo(Objs, MaxObjs)},
        b \in {NoResponse, Response(<<>>),
               Response(<<Obj(33776, Deg90, Null, Deg90, Deg90)>>)},
        c \in {NoResponse, Response(<<Obj(34427, Deg90, Deg90, Num(PosInf), Deg90)>>)} }

NoFile == [dataSources |-> NoMarker, intactRso |-> NoMarker]

FetchInit ==
    /\ \E responses \in Responses : FetchStart("start", responses)
    /\ ConvertStart("idle", NoFile)

FetchNext ==
    \/ FetchActive
    \/ FetchDebrisGroup
    \/ WriteDebris
    \/ FetchCatch

FetchSpec == FetchInit /\ [][FetchNext]_vars


(***************************************************************************)
(* Vocabulary of the properties                                            *)
(***************************************************************************)
\* the rows of rso.rows the reconciliation loop has consumed so far
Processed == {rso.rows[n] : n \in 1..(i - 1)}
TrimmedId(r) == Trim(Field(r, "NoradId"))
\* the consumed rows that take part in the reconciliation
ValidSeen == {r \in Processed : hasValidElems(r) /\ TrimmedId(r) # <<>>}
Champions == {e.val : e \in Range(bestByNorad)}

SourceId(r) == Trim(StringOf(r, "DataSourceId"))
Listed(r) == \E n \in 1..Len(priority) : priority[n] = SourceId(r)
Pos(r) == CHOOSE n \in 1..Len(priority) : priority[n] = SourceId(r)
\* a's source is earlier in the priority list than b's, or b's is unlisted
Precedes(a, b) == Listed(a) /\ (~Listed(b) \/ Pos(a) < Pos(b))
SamePriority(a, b) ==
    \/ Listed(a) /\ Listed(b) /\ Pos(a) = Pos(b)
    \/ ~Listed(a) /\ ~Listed(b)

ParsedEpoch(r) == DateParse(Trim(Field(r, "Epoch")))
Parsable(r) == IsFinite(ParsedEpoch(r))
\* a's epoch parses and is later than b's, or b's does not parse at all
Later(a, b) == Parsable(a) /\ (~Parsable(b) \/ ParsedEpoch(a).v > ParsedEpoch(b).v)
SameEpoch(a, b) ==
    \/ ~Parsable(a) /\ ~Parsable(b)
    \/ Parsable(a) /\ Parsable(b) /\ ParsedEpoch(a).v = ParsedEpoch(b).v
SameObject(a, b) == TrimmedId(a) = TrimmedId(b)

\* C1 - Priority dominance: of two valid consumed records of one object, the
\* one whose source comes later in the priority list (or is unlisted while
\* the other's is listed) is never the champion, whatever the epochs and
\* the arrival order.
C1_PriorityDominance ==
    LET seen == ValidSeen
        champions == Champions
    IN  \A b \in seen \cap champions : \A a \in seen :
            ~(SameObject(a, b) /\ Precedes(a, b))

\* the loop is over; the lower-priority record came first and has the later
\* epoch, and the higher-priority record is the champion
C1_Witness ==
    /\ pc = "done"
    /\ \E a \in ValidSeen : \E b \in ValidSeen :
        /\ SameObject(a, b) /\ Precedes(a, b)
        /\ b.line < a.line
        /\ Later(b, a)
        /\ a \in Champions

\* C2 - Recency tiebreak: of two valid consumed records of one object with
\* equal source priority, the one with the earlier (or unparsable) epoch is
\* never the champion, and when they are the only two valid records of the
\* object the later one is the champion, in either arrival order.
C2_RecencyTiebreak ==
    LET seen == ValidSeen
        champions == Champions
    IN  \A a \in seen : \A b \in seen :
            (SameObject(a, b) /\ SamePriority(a, b) /\ Later(a, b)) =>
                /\ b \notin champions
                /\ ({r \in seen : SameObject(r, a)} = {a, b} => a \in champions)

\* the loop is over; an unparsable epoch lost to a parsable one that came
\* later, and a later epoch that came first kept its place
C2_Witness ==
    /\ pc = "done"
    /\ \E a \in ValidSeen : \E b \in ValidSeen :
        /\ SameObject(a, b) /\ SamePriority(a, b) /\ ~Parsable(b) /\ Parsable(a)
        /\ b.line < a.line
        /\ a \in Champions
    /\ \E a \in ValidSeen : \E b \in ValidSeen :
        /\ SameObject(a, b) /\ SamePriority(a, b) /\ Later(a, b) /\ Parsable(b)
        /\ a.line < b.line
        /\ a \in Champions

\* C3 - Determinism under tie: a valid record that ties (equal source
\* priority, equal parsed epoch or both unparsable) with a valid record of
\* the same object consumed before it is never the champion.
C3_TieKeepsFirst ==
    LET seen == ValidSeen
        champions == Champions
    IN  \A b \in seen \cap champions : \A a \in seen :
            ~(SameObject(a, b) /\ SamePriority(a, b) /\ SameEpoch(a, b) /\ a.line < b.line)

\* the loop is over; the champion is from an unlisted source and a later
\* record of another unlisted source with the same epoch tied with it
C3_Witness ==
    /\ pc = "done"
    /\ \E a \in Champions : \E b \in ValidSeen :
        /\ SameObject(a, b) /\ SamePriority(a, b) /\ SameEpoch(a, b)
        /\ a.line < b.line
        /\ ~Listed(a) /\ SourceId(a) # SourceId(b)

\* a numeric cell: the text of a finite decimal number
IsFiniteNumberCell(c) == Trim(c) \in Numerals
\* the record is unusable: SMA is no positive finite number, one of the
\* five other cells is no finite number, or the epoch is empty
Unusable(r) ==
    \/ ~IsFiniteNumberCell(Field(r, "SMA"))
    \/ NumeralValue(Trim(Field(r, "SMA"))) <= 0
    \/ \E f \in {"Ecc", "Inc", "RAAN", "ArgP", "MeanAnom"} : ~IsFiniteNumberCell(Field(r, f))
    \/ Trim(Field(r, "Epoch")) = <<>>

\* C4 - Invalid exclusion: a consumed record that is unusable is never a
\* champion.
C4_InvalidExclusion == \A r \in Processed : Unusable(r) => r \notin Champions

\* the lines of a written file after its header line
DataLines(fs, name) == IF MapHas(fs, name) THEN Tail(MapGet(fs, name)) ELSE <<>>

\* C5 - Descriptor consistency: once both tables are written, every
\* DataSource cell of the object table is the Code of a descriptor row.
C5_DescriptorConsistency ==
    pc = "done" =>
        \A n \in 1..Len(DataLines(files, NodebFile)) :
            \E m \in 1..Len(DataLines(files, DsFile)) :
                DataLines(files, NodebFile)[n][1] = DataLines(files, DsFile)[m][1]

DsTableLoads ==
    /\ extractBacktick("dataSources", js).ok
    /\ parseTSV(extractBacktick("dataSources", js).val).ok

\* C8 - Structural-failure scope: when the run has ended and the
\* dataSources table loads, the descriptor file, which depends on that
\* table alone, has been written.
C8_StructuralFailureScope ==
    (pc \in {"done", "exited"} /\ DsTableLoads) => MapHas(files, DsFile)

\* r is better than c under the documented order: better source rank, or
\* the same rank and a later epoch
StrictlyBetter(r, c) == Precedes(r, c) \/ (SamePriority(r, c) /\ Later(r, c))

\* C10 - Fold optimality: the champion of an object is a valid consumed
\* record of it, no valid consumed record of the object is strictly better,
\* and no record tied with the champion was consumed before it.
C10_FoldOptimality ==
    LET seen == ValidSeen IN
    \A e \in Range(bestByNorad) :
        /\ e.val \in seen
        /\ \A r \in seen :
            TrimmedId(r) = e.key =>
                /\ ~StrictlyBetter(r, e.val)
                /\ (SamePriority(r, e.val) /\ SameEpoch(r, e.val)) => e.val.line <= r.line

\* the loop is over; three valid records of one object were consumed, the
\* champion is the middle one, it beat the first and was not the last
C10_Witness ==
    /\ pc = "done"
    /\ \E a \in ValidSeen : \E c \in Champions : \E b \in ValidSeen :
        /\ SameObject(a, c) /\ SameObject(b, c)
        /\ a.line < c.line /\ c.line < b.line
        /\ StrictlyBetter(c, a)
        /\ StrictlyBetter(c, b)
        /\ StrictlyBetter(b, a)

(***************************************************************************)
(* Properties of fetch_celestrak.mjs                                       *)
(***************************************************************************)
Groups == <<"active">> \o debrisGroups
Ended == fpc \in {"done", "exited"}
\* the rows of every group whose fetch succeeded are in the file of the group
RowsWritten(group) ==
    LET name == IF group = "active" THEN NodebFile ELSE DebFile IN
    \A n \in 1..Len(net[group].body) :
        \E m \in 1..Len(DataLines(ffiles, name)) :
            DataLines(ffiles, name)[m] = rowFromCelestrak(net[group].body[n])

\* C7 - Fetch-failure isolation: when the run has ended, it has not
\* aborted, the rows of every group that could be fetched are written, and
\* every group that could not is named in a warning.
C7_FetchFailureIsolation ==
    Ended =>
        /\ fexitCode = 0
        /\ \A n \in 1..Len(Groups) :
            IF net[Groups[n]].ok
            THEN RowsWritten(Groups[n])
            ELSE \E w \in 1..Len(warnings) : warnings[w] = Groups[n]

\* the text of a number that is not finite, or no text at all
NotFiniteText == {S("NaN"), S("Infinity"), S("-Infinity"), <<>>}
\* the input is absent, null, or does not convert to a finite number
MissingOrNonFinite(x) == x.t \in {"undef", "null"} \/ ~IsFinite(ToNumber(x))

AngleCell(obj, col, x) ==
    /\ rowFromCelestrak(obj)[col] \notin NotFiniteText
    /\ MissingOrNonFinite(x) => rowFromCelestrak(obj)[col] = S("0")

\* C9 - Angle degradation: the Inc, RAAN, ArgP and MeanAnom cells of every
\* row made from a fetched object are finite numbers, and 0 when the input
\* is missing or not finite.
C9_AngleDegradation ==
    \A n \in 1..Len(active) :
        /\ AngleCell(active[n], 22, active[n].INCLINATION)
        /\ AngleCell(active[n], 23, active[n].RA_OF_ASC_NODE)
        /\ AngleCell(active[n], 24, active[n].ARG_OF_PERICENTER)
        /\ AngleCell(active[n], 25, active[n].MEAN_ANOMALY)


====
